---- MODULE Spec2Model ----
(***************************************************************************)
(* Model of src/main.py, a flat module of independent Bitcoin-themed       *)
(* utility functions.  Every function is called by an external harness:    *)
(* the harness picks the arguments (Init), the call runs to completion in  *)
(* one step (the Call... action) and leaves either a returned value or a   *)
(* raised exception in ret.  add_utxo works on a heap of list objects,     *)
(* because its contract is about the identity of the list it returns.      *)
(*                                                                         *)
(* Python values are modelled as follows.                                  *)
(*   - an int is an Int; one too wide for 32 bits (the satoshi rewards) is *)
(*     a little-endian sequence of base-1000 limbs;                        *)
(*   - a float is a rational on a fixed grid (quarters for block heights,  *)
(*     micro-BTC and milli-BTC for fees) or one of inf, -inf, nan;         *)
(*   - a str is a sequence of one-character strings where its length       *)
(*     matters, a TLA+ string otherwise;                                   *)
(*   - a dict is a function, a list a sequence, None / {} a flagged record.*)
(***************************************************************************)
EXTENDS Integers, Sequences, FiniteSets, TLC

VARIABLES pc, arg, ret, heap, returned, hist

vars == <<pc, arg, ret, heap, returned, hist>>

\* The list heap is not used by the pure functions.
NoHeap == heap = <<>> /\ returned = <<>> /\ hist = <<>>

\* The call of a pure function f: the harness's argument is in arg.
Pending == [exc |-> "pending"]

(***************************************************************************)
(* validate_block_height                                                   *)
(***************************************************************************)
HeightSpread == 6

MsgInteger == "Block height must be an integer"
MsgNegative == "Block height cannot be negative"
MsgUnrealistic == "Block height seems unrealistic"
MsgValid == "Valid block height"

\* A Python int n, a finite float n/4, a non-finite float, a str.
PyInt(n) == [kind |-> "int", cls |-> "finite", n |-> n, s |-> ""]
PyFloat(n) == [kind |-> "float", cls |-> "finite", n |-> n, s |-> ""]
PyNonFinite(c) == [kind |-> "float", cls |-> c, n |-> 0, s |-> ""]
PyStr(s) == [kind |-> "str", cls |-> "finite", n |-> 0, s |-> s]

HeightInts ==
    (-HeightSpread .. HeightSpread)
        \cup ((800000 - HeightSpread) .. (800000 + HeightSpread))

HeightInputs ==
    {PyInt(n) : n \in HeightInts}
        \cup {PyFloat(4 * n + d) : n \in HeightInts, d \in 0 .. 3}
        \cup {PyNonFinite(c) : c \in {"inf", "-inf", "nan"}}
        \cup {PyStr(s) : s \in {"abc", "100", "", "-1", "100.5"}}

\* float.is_integer(): False for inf and nan.
is_integer(height) == height.cls = "finite" /\ height.n % 4 = 0

\* int(x) of a number: truncation toward zero; OverflowError for an
\* infinity, ValueError for nan.
int(height) ==
    IF height.cls = "nan" THEN [exc |-> "ValueError", v |-> 0]
    ELSE IF height.cls # "finite" THEN [exc |-> "OverflowError", v |-> 0]
    ELSE IF height.kind = "int" THEN [exc |-> "none", v |-> height.n]
    ELSE IF height.n >= 0 THEN [exc |-> "none", v |-> height.n \div 4]
    ELSE [exc |-> "none", v |-> -((-height.n) \div 4)]

Returns(ok, msg) == [exc |-> "none", ok |-> ok, msg |-> msg]
Raises(e) == [exc |-> e, ok |-> FALSE, msg |-> ""]

validate_block_height_inclusive(height) ==
    IF height.kind = "str" THEN Returns(FALSE, MsgInteger)
    ELSE IF height.kind = "float" /\ ~is_integer(height) THEN Returns(FALSE, MsgInteger)
    ELSE LET height_int == int(height) IN
        IF height_int.exc = "ValueError" THEN Returns(FALSE, MsgInteger)
        ELSE IF height_int.exc # "none" THEN Raises(height_int.exc)
        ELSE IF height_int.v < 0 THEN Returns(FALSE, MsgNegative)
        ELSE IF height_int.v >= 800000 THEN Returns(FALSE, MsgUnrealistic)
        ELSE Returns(TRUE, MsgValid)

validate_block_height_unguarded(height) ==
    IF height.kind = "str" THEN Returns(FALSE, MsgInteger)
    ELSE LET height_int == int(height) IN
        IF height_int.exc = "ValueError" THEN Returns(FALSE, MsgInteger)
        ELSE IF height_int.exc # "none" THEN Raises(height_int.exc)
        ELSE IF height_int.v < 0 THEN Returns(FALSE, MsgNegative)
        ELSE IF height_int.v > 800000 THEN Returns(FALSE, MsgUnrealistic)
        ELSE Returns(TRUE, MsgValid)

validate_block_height(height) ==
    IF height.kind = "str" THEN Returns(FALSE, MsgInteger)
    ELSE IF height.kind = "float" /\ ~is_integer(height) THEN Returns(FALSE, MsgInteger)
    ELSE LET height_int == int(height) IN
        IF height_int.exc = "ValueError" THEN Returns(FALSE, MsgInteger)
        ELSE IF height_int.exc # "none" THEN Raises(height_int.exc)
        ELSE IF height_int.v < 0 THEN Returns(FALSE, MsgNegative)
        ELSE IF height_int.v > 800000 THEN Returns(FALSE, MsgUnrealistic)
        ELSE Returns(TRUE, MsgValid)

InitHeight ==
    /\ pc = "call"
    /\ arg \in HeightInputs
    /\ ret = Pending
    /\ NoHeap

CallValidateBlockHeight ==
    /\ pc = "call"
    /\ pc' = "done"
    /\ ret' = validate_block_height(arg)
    /\ UNCHANGED <<arg, heap, returned, hist>>

SpecHeight == InitHeight /\ [][CallValidateBlockHeight]_vars

\* The mathematical value of a numeric argument is arg.n / Scale(arg).
Scale(height) == IF height.kind = "int" THEN 1 ELSE 4

Fractional(height) ==
    height.kind = "float" /\ height.cls = "finite" /\ height.n % 4 # 0

Integral(height) ==
    height.kind # "str" /\ height.cls = "finite" /\ height.n % Scale(height) = 0

\* C1: validate_block_height decides every input: a string and a float with
\* a fractional part give (False, "must be an integer"); an integer or
\* integral float h gives "cannot be negative" when h < 0, "seems
\* unrealistic" when h > 800000 and (True, "Valid block height") exactly when
\* 0 <= h <= 800000.
HeightDecision ==
    pc = "done" =>
        /\ arg.kind = "str" => ret = Returns(FALSE, MsgInteger)
        /\ Fractional(arg) => ret = Returns(FALSE, MsgInteger)
        /\ Integral(arg) =>
            /\ arg.n < 0 => ret = Returns(FALSE, MsgNegative)
            /\ arg.n > 800000 * Scale(arg) => ret = Returns(FALSE, MsgUnrealistic)
            /\ (arg.n >= 0 /\ arg.n <= 800000 * Scale(arg)) => ret = Returns(TRUE, MsgValid)
        /\ (ret.exc = "none" /\ ret.ok) =>
            (Integral(arg) /\ arg.n >= 0 /\ arg.n <= 800000 * Scale(arg))

HeightDecisionWitness ==
    /\ pc = "done"
    /\ arg = PyFloat(4 * 800000)
    /\ ret = Returns(TRUE, MsgValid)

\* An input that cannot be converted to an integer: text, a fractional
\* float, a non-finite float.
ConversionFails(height) ==
    \/ height.kind = "str"
    \/ Fractional(height)
    \/ height.cls # "finite"

\* C2: no exception escapes validate_block_height: every call returns a
\* (bool, message) pair, and an input that cannot be converted to an integer
\* gives (False, "Block height must be an integer").
HeightNoException ==
    pc = "done" =>
        /\ ret.exc = "none"
        /\ ret.ok \in BOOLEAN
        /\ ret.msg \in {MsgInteger, MsgNegative, MsgUnrealistic, MsgValid}
        /\ ConversionFails(arg) => ret = Returns(FALSE, MsgInteger)

HeightNoExceptionWitness ==
    /\ pc = "done"
    /\ arg = PyNonFinite("inf")
    /\ ret = Returns(FALSE, MsgInteger)

(***************************************************************************)
(* tx_priority                                                             *)
(* A fee is fee_micro millionths of a BTC, so 0.00006 is 60 and the        *)
(* thresholds 0.00005 and 0.00001 are 50 and 10.  fee_rate is the exact    *)
(* quotient; on the grid below the float quotient falls on the same side   *)
(* of both thresholds.                                                     *)
(***************************************************************************)
MaxFeeMicro == 70

SizeBytes == {0, 1, 2, 4, 250, 1000}

FeesMicro ==
    (0 .. MaxFeeMicro)
        \cup {t * s + d : t \in {10, 50}, s \in SizeBytes, d \in {-1, 0, 1}}

TxInputs == {[size_bytes |-> s, fee_btc |-> f] : s \in SizeBytes, f \in FeesMicro \ {-1}}

\* fee_btc / size_bytes, in micro-BTC per byte; ZeroDivisionError for 0.
Divide(fee_btc, size_bytes) ==
    IF size_bytes = 0 THEN [exc |-> "ZeroDivisionError", num |-> 0, den |-> 1]
    ELSE [exc |-> "none", num |-> fee_btc, den |-> size_bytes]

\* rate >= t for a rate with a positive or negative denominator.
RateAtLeast(rate, t) ==
    IF rate.den > 0 THEN rate.num >= t * rate.den ELSE rate.num <= t * rate.den

Priority(p) == [exc |-> "none", val |-> p]

tx_priority_undivided(size_bytes, fee_btc) ==
    IF size_bytes = 0 THEN [exc |-> "ZeroDivisionError", val |-> ""]
    ELSE IF fee_btc >= 50 THEN Priority("high")
    ELSE IF fee_btc >= 10 THEN Priority("medium")
    ELSE Priority("low")

tx_priority(size_bytes, fee_btc) ==
    LET fee_rate == Divide(fee_btc, size_bytes) IN
        IF fee_rate.exc # "none" THEN [exc |-> fee_rate.exc, val |-> ""]
        ELSE IF RateAtLeast(fee_rate, 50) THEN Priority("high")
        ELSE IF RateAtLeast(fee_rate, 10) THEN Priority("medium")
        ELSE Priority("low")

InitTx ==
    /\ pc = "call"
    /\ arg \in TxInputs
    /\ ret = Pending
    /\ NoHeap

CallTxPriority ==
    /\ pc = "call"
    /\ pc' = "done"
    /\ ret' = tx_priority(arg.size_bytes, arg.fee_btc)
    /\ UNCHANGED <<arg, heap, returned, hist>>

SpecTx == InitTx /\ [][CallTxPriority]_vars

TxCall(size_bytes, fee_btc) ==
    pc = "done" /\ arg = [size_bytes |-> size_bytes, fee_btc |-> fee_btc]

\* C3 as stated: tx_priority(1000, 0.00006) = "high", tx_priority(1000,
\* 0.00002) = "medium", tx_priority(1000, 0.000001) = "low".
TxDocumentedExamples ==
    /\ TxCall(1000, 60) => ret = Priority("high")
    /\ TxCall(1000, 20) => ret = Priority("medium")
    /\ TxCall(1000, 1) => ret = Priority("low")

\* C3 (amended): tx_priority classifies by fee_btc / size_bytes, "high" from
\* 0.00005 per byte, "medium" from 0.00001 per byte, "low" below; the three
\* documented calls with size 1000 have rates 6e-8, 2e-8 and 1e-9 and all
\* return "low".
TxClassifiesByRate ==
    /\ (pc = "done" /\ arg.size_bytes > 0) =>
        /\ ret.exc = "none"
        /\ ret.val = "high" <=> arg.fee_btc >= 50 * arg.size_bytes
        /\ ret.val = "medium" <=>
            (arg.fee_btc >= 10 * arg.size_bytes /\ arg.fee_btc < 50 * arg.size_bytes)
        /\ ret.val = "low" <=> arg.fee_btc < 10 * arg.size_bytes
    /\ TxCall(1000, 60) => ret = Priority("low")
    /\ TxCall(1000, 20) => ret = Priority("low")
    /\ TxCall(1000, 1) => ret = Priority("low")

TxClassifiesByRateWitness ==
    /\ TxCall(1000, 60)
    /\ ret = Priority("low")

(***************************************************************************)
(* find_high_fee                                                           *)
(* A fee is a number of thousandths of a BTC, so 0.005 is 5.               *)
(***************************************************************************)
MaxFees == 3

MaxFeeMilli == 10

SeqsUpTo(S, n) == UNION {[1 .. k -> S] : k \in 0 .. n}

FeeLists == SeqsUpTo(0 .. MaxFeeMilli, MaxFees)

None == [found |-> FALSE, index |-> 0, fee |-> 0]

Found(index, fee) == [found |-> TRUE, index |-> index, fee |-> fee]

\* The for loop over enumerate(fee_list), from the 0-based position index.
RECURSIVE scan_fees_inclusive(_, _)
scan_fees_inclusive(fee_list, index) ==
    IF index >= Len(fee_list) THEN None
    ELSE IF fee_list[index + 1] >= 5 THEN Found(index, fee_list[index + 1])
    ELSE scan_fees_inclusive(fee_list, index + 1)

RECURSIVE scan_fees(_, _)
scan_fees(fee_list, index) ==
    IF index >= Len(fee_list) THEN None
    ELSE IF fee_list[index + 1] > 5 THEN Found(index, fee_list[index + 1])
    ELSE scan_fees(fee_list, index + 1)

find_high_fee(fee_list) == scan_fees(fee_list, 0)

InitFees ==
    /\ pc = "call"
    /\ arg \in FeeLists
    /\ ret = Pending
    /\ NoHeap

CallFindHighFee ==
    /\ pc = "call"
    /\ pc' = "done"
    /\ ret' = find_high_fee(arg)
    /\ UNCHANGED <<arg, heap, returned, hist>>

SpecFees == InitFees /\ [][CallFindHighFee]_vars

\* C4: find_high_fee returns (i, fees[i]) for the lowest index i with
\* fees[i] > 0.005 (every earlier element is <= 0.005, a later larger fee is
\* not preferred), and None when no element is strictly greater than 0.005.
FirstHighFee ==
    pc = "done" =>
        /\ (\E i \in 1 .. Len(arg) : arg[i] > 5) =>
            /\ ret.found
            /\ ret.index + 1 \in 1 .. Len(arg)
            /\ ret.fee = arg[ret.index + 1]
            /\ ret.fee > 5
            /\ \A j \in 1 .. ret.index : arg[j] <= 5
        /\ (\A i \in 1 .. Len(arg) : arg[i] <= 5) => ret = None
        /\ arg = <<1, 6, 10>> => ret = Found(1, 6)
        /\ arg = <<1>> => ret = None

FirstHighFeeWitness ==
    /\ pc = "done"
    /\ arg = <<5, 6, 10>>
    /\ ret = Found(1, 6)

(***************************************************************************)
(* find_utxo_with_min_value                                                *)
(* The list holds references to dicts; the returned dict is named by its   *)
(* 0-based position in the list, so that two equal dicts stay apart.       *)
(***************************************************************************)
MaxUtxos == 3

MaxValue == 3

Txids == {"a", "b"}

Utxos == {[txid |-> t, value |-> v] : t \in Txids, v \in 1 .. MaxValue}

UtxoInputs ==
    {[utxos |-> u, target |-> t] : u \in SeqsUpTo(Utxos, MaxUtxos), t \in 0 .. (MaxValue + 1)}

EmptyDict == [empty |-> TRUE, ref |-> 0]

Dict(ref) == [empty |-> FALSE, ref |-> ref]

\* [utxo for utxo in utxos if utxo['value'] >= target], as positions.
RECURSIVE valid_positions(_, _, _)
valid_positions(utxos, target, index) ==
    IF index >= Len(utxos) THEN <<>>
    ELSE IF utxos[index + 1].value >= target
        THEN <<index>> \o valid_positions(utxos, target, index + 1)
        ELSE valid_positions(utxos, target, index + 1)

\* min(valid_utxos, key=...): the running minimum is replaced only by a
\* strictly smaller key.
RECURSIVE min_by_value_last(_, _, _, _)
min_by_value_last(utxos, valid_utxos, k, best) ==
    IF k > Len(valid_utxos) THEN best
    ELSE IF utxos[valid_utxos[k] + 1].value <= utxos[best + 1].value
        THEN min_by_value_last(utxos, valid_utxos, k + 1, valid_utxos[k])
        ELSE min_by_value_last(utxos, valid_utxos, k + 1, best)

RECURSIVE min_by_value(_, _, _, _)
min_by_value(utxos, valid_utxos, k, best) ==
    IF k > Len(valid_utxos) THEN best
    ELSE IF utxos[valid_utxos[k] + 1].value < utxos[best + 1].value
        THEN min_by_value(utxos, valid_utxos, k + 1, valid_utxos[k])
        ELSE min_by_value(utxos, valid_utxos, k + 1, best)

find_utxo_with_min_value(utxos, target) ==
    LET valid_utxos == valid_positions(utxos, target, 0) IN
        IF valid_utxos = <<>> THEN EmptyDict
        ELSE Dict(min_by_value(utxos, valid_utxos, 2, valid_utxos[1]))

InitUtxo ==
    /\ pc = "call"
    /\ arg \in UtxoInputs
    /\ ret = Pending
    /\ NoHeap

CallFindUtxoWithMinValue ==
    /\ pc = "call"
    /\ pc' = "done"
    /\ ret' = find_utxo_with_min_value(arg.utxos, arg.target)
    /\ UNCHANGED <<arg, heap, returned, hist>>

SpecUtxo == InitUtxo /\ [][CallFindUtxoWithMinValue]_vars

Qualifying == {i \in 1 .. Len(arg.utxos) : arg.utxos[i].value >= arg.target}

\* C5: find_utxo_with_min_value returns the empty mapping iff no UTXO has
\* value >= target; otherwise a listed UTXO with value >= target that is
\* smallest among the qualifying ones and, among those of that smallest
\* value, the one at the lowest index.
SmallestQualifyingUtxo ==
    pc = "done" =>
        /\ ret.empty <=> Qualifying = {}
        /\ ~ret.empty =>
            /\ ret.ref + 1 \in Qualifying
            /\ \A i \in Qualifying :
                /\ arg.utxos[ret.ref + 1].value <= arg.utxos[i].value
                /\ arg.utxos[i].value = arg.utxos[ret.ref + 1].value => ret.ref + 1 <= i

SmallestQualifyingUtxoWitness ==
    /\ pc = "done"
    /\ arg.target = 2
    /\ Len(arg.utxos) = 3
    /\ arg.utxos[1].value = 1
    /\ arg.utxos[2].value = 2
    /\ arg.utxos[3].value = 2
    /\ ret = Dict(1)

(***************************************************************************)
(* add_utxo                                                                *)
(* heap[r] is the content of the list object with reference r.  The        *)
(* harness owns list 1 and an equal but distinct list 2 that it never      *)
(* passes; it calls add_utxo on list 1 through any reference it holds, the *)
(* original one or one that an earlier call returned.                      *)
(***************************************************************************)
MaxCalls == 3

MaxInitial == 2

NewUtxos == {[txid |-> t, value |-> v] : t \in Txids, v \in {100, 200}}

\* list.append(x): the object behind the reference changes in place.
append(h, list, x) == [h EXCEPT ![list] = Append(h[list], x)]

add_utxo_copy(h, utxos, new_utxo) ==
    [heap |-> Append(h, Append(h[utxos], new_utxo)), result |-> Len(h) + 1]

add_utxo(h, utxos, new_utxo) ==
    [heap |-> append(h, utxos, new_utxo), result |-> utxos]

InitAdd ==
    /\ pc = "call"
    /\ arg = <<>>
    /\ ret = Pending
    /\ \E initial \in SeqsUpTo(NewUtxos, MaxInitial) :
        /\ heap = <<initial, initial>>
        /\ hist = [initial |-> initial, added |-> <<>>]
    /\ returned = <<>>

HeldReferences == {1} \cup {returned[i].result : i \in DOMAIN returned}

CallAddUtxo ==
    /\ Len(returned) < MaxCalls
    /\ \E utxos \in HeldReferences, new_utxo \in NewUtxos :
        LET call == add_utxo(heap, utxos, new_utxo) IN
            /\ heap' = call.heap
            /\ returned' = Append(returned, [utxos |-> utxos, result |-> call.result])
            /\ hist' = [hist EXCEPT !.added = Append(@, new_utxo)]
    /\ UNCHANGED <<pc, arg, ret>>

SpecAdd == InitAdd /\ [][CallAddUtxo]_vars

\* C6: add_utxo appends in place and returns the list it was given: after
\* calls adding u1..un the list is L0 followed by u1..un in call order, each
\* call returned the very list passed in (no copy is made), so every
\* returned reference observes all the appends.
AppendsInPlace ==
    hist # <<>> =>
        /\ heap[1] = hist.initial \o hist.added
        /\ Len(heap[1]) = Len(hist.initial) + Len(hist.added)
        /\ Len(heap) = 2
        /\ heap[2] = hist.initial
        /\ \A i \in DOMAIN returned :
            /\ returned[i].result = returned[i].utxos
            /\ returned[i].result = 1
            /\ heap[returned[i].result] = hist.initial \o hist.added

AppendsInPlaceWitness ==
    /\ Len(returned) >= 2
    /\ Len(hist.initial) >= 1
    /\ hist.added[1] # hist.added[2]
    /\ heap[returned[1].result] = hist.initial \o hist.added

(***************************************************************************)
(* halving_schedule                                                        *)
(* A reward in satoshis does not fit 32 bits: a Python int is here a       *)
(* sequence of base-1000 limbs, lowest limb first, without leading zero    *)
(* limbs (0 is the empty sequence, 5000000000 is <<0, 0, 0, 5>>).          *)
(***************************************************************************)
Limb == 1000

RECURSIVE BigOfInt(_)
BigOfInt(n) == IF n = 0 THEN <<>> ELSE <<n % Limb>> \o BigOfInt(n \div Limb)

\* a * m + c for small m and c.
RECURSIVE BigMulAdd(_, _, _)
BigMulAdd(a, m, c) ==
    IF a = <<>> THEN BigOfInt(c)
    ELSE LET x == a[1] * m + c IN
        IF Len(a) = 1 THEN BigOfInt(x)
        ELSE <<x % Limb>> \o BigMulAdd(Tail(a), m, x \div Limb)

\* a < b, comparing from the highest limb.
RECURSIVE BigLessFrom(_, _, _)
BigLessFrom(a, b, i) ==
    IF i = 0 THEN FALSE
    ELSE IF a[i] # b[i] THEN a[i] < b[i]
    ELSE BigLessFrom(a, b, i - 1)

BigLess(a, b) ==
    IF Len(a) # Len(b) THEN Len(a) < Len(b) ELSE BigLessFrom(a, b, Len(a))

RECURSIVE BigStrip(_)
BigStrip(a) ==
    IF a = <<>> THEN <<>>
    ELSE IF a[Len(a)] = 0 THEN BigStrip(SubSeq(a, 1, Len(a) - 1))
    ELSE a

\* a - b for a >= b, limb by limb with a borrow.
RECURSIVE BigSubFrom(_, _, _, _)
BigSubFrom(a, b, i, borrow) ==
    IF i > Len(a) THEN <<>>
    ELSE LET x == a[i] - (IF i <= Len(b) THEN b[i] ELSE 0) - borrow IN
        IF x < 0 THEN <<x + Limb>> \o BigSubFrom(a, b, i + 1, 1)
        ELSE <<x>> \o BigSubFrom(a, b, i + 1, 0)

BigSub(a, b) == BigStrip(BigSubFrom(a, b, 1, 0))

\* 2 ** n for n >= 0.
RECURSIVE BigPow2(_)
BigPow2(n) == IF n = 0 THEN <<1>> ELSE BigMulAdd(BigPow2(n - 1), 2, 0)

\* The largest digit d in lo .. hi with b * d <= r, by bisection.
RECURSIVE QuotientDigit(_, _, _, _)
QuotientDigit(r, b, lo, hi) ==
    IF lo = hi THEN lo
    ELSE LET mid == (lo + hi + 1) \div 2 IN
        IF BigLess(r, BigMulAdd(b, mid, 0)) THEN QuotientDigit(r, b, lo, mid - 1)
        ELSE QuotientDigit(r, b, mid, hi)

\* divmod(a, b) for b > 0, by long division: the quotient and remainder by
\* b * Limb, then one more quotient digit.
RECURSIVE BigDivMod(_, _)
BigDivMod(a, b) ==
    IF BigLess(a, b) THEN [q |-> <<>>, r |-> a]
    ELSE LET high == BigDivMod(a, <<0>> \o b)
             digit == QuotientDigit(high.r, b, 0, Limb - 1)
         IN  [q |-> BigMulAdd(high.q, Limb, digit),
              r |-> BigSub(high.r, BigMulAdd(b, digit, 0))]

\* a // b
BigFloorDiv(a, b) == BigDivMod(a, b).q

BTC_TO_SATS == 100000000

halving_interval == 210000

base_reward == BigMulAdd(BigOfInt(BTC_TO_SATS), 50, 0)

MaxHalvings == 34

MaxBlocks == 2

\* Heights at the start and at the end of a halving period.
BlockHeights ==
    {k * halving_interval : k \in 0 .. MaxHalvings}
        \cup {k * halving_interval + (halving_interval - 1) :
                k \in {0, 1, 32, 33}}

BlockLists == SeqsUpTo(BlockHeights, MaxBlocks)

block_reward_early(block) ==
    LET halvings == (block + 1) \div halving_interval IN
        BigFloorDiv(base_reward, BigPow2(halvings))

block_reward_ceiling(block) ==
    LET halvings == block \div halving_interval
        qr == BigDivMod(base_reward, BigPow2(halvings))
    IN  IF qr.r = <<>> THEN qr.q ELSE BigMulAdd(qr.q, 1, 1)

\* The body of the loop: halvings and reward of one block.
block_reward(block) ==
    LET halvings == block \div halving_interval IN
        BigFloorDiv(base_reward, BigPow2(halvings))

\* result[block] = reward
SetItem(result, key, value) ==
    [k \in DOMAIN result \cup {key} |-> IF k = key THEN value ELSE result[k]]

RECURSIVE halving_loop(_, _, _)
halving_loop(blocks, i, result) ==
    IF i > Len(blocks) THEN result
    ELSE halving_loop(blocks, i + 1, SetItem(result, blocks[i], block_reward(blocks[i])))

halving_schedule(blocks) == halving_loop(blocks, 1, <<>>)

InitHalving ==
    /\ pc = "call"
    /\ arg \in BlockLists
    /\ ret = Pending
    /\ NoHeap

CallHalvingSchedule ==
    /\ pc = "call"
    /\ pc' = "done"
    /\ ret' = halving_schedule(arg)
    /\ UNCHANGED <<arg, heap, returned, hist>>

SpecHalving == InitHalving /\ [][CallHalvingSchedule]_vars

\* a * 2^k, by k doublings.
RECURSIVE Doubled(_, _)
Doubled(a, k) == IF k = 0 THEN a ELSE Doubled(BigMulAdd(a, 2, 0), k - 1)

FiftyBitcoin == <<0, 0, 0, 5>>

\* r = floor(5000000000 / 2^k), i.e. r * 2^k <= 5000000000 < (r + 1) * 2^k.
IsFloorOfReward(r, k) ==
    /\ ~BigLess(FiftyBitcoin, Doubled(r, k))
    /\ BigLess(FiftyBitcoin, Doubled(BigMulAdd(r, 1, 1), k))

\* C7: halving_schedule returns a mapping whose keys are exactly the
\* distinct heights of the input, each height h mapped to
\* floor(5000000000 / 2^(h div 210000)) whatever its position and the other
\* heights; 0, 210000 and 420000 map to 5000000000, 2500000000, 1250000000.
HalvingRewards ==
    pc = "done" =>
        /\ DOMAIN ret = {arg[i] : i \in DOMAIN arg}
        /\ \A h \in DOMAIN ret : IsFloorOfReward(ret[h], h \div 210000)
        /\ 0 \in DOMAIN ret => ret[0] = <<0, 0, 0, 5>>
        /\ 210000 \in DOMAIN ret => ret[210000] = <<0, 0, 500, 2>>
        /\ 420000 \in DOMAIN ret => ret[420000] = <<0, 0, 250, 1>>

HalvingRewardsWitness ==
    /\ pc = "done"
    /\ arg = <<210000, 210000>>
    /\ DOMAIN ret = {210000}
    /\ ret[210000] = <<0, 0, 500, 2>>

IsBigNat(a) ==
    /\ \A i \in DOMAIN a : a[i] \in 0 .. (Limb - 1)
    /\ a # <<>> => a[Len(a)] # 0

\* C10: for non-negative heights the reward is a non-negative integer that
\* never increases with the height, is at least 1 while h div 210000 <= 32
\* and is 0 from h div 210000 = 33 on.
HalvingRewardDecay ==
    pc = "done" =>
        /\ \A h \in DOMAIN ret :
            /\ IsBigNat(ret[h])
            /\ h \div 210000 <= 32 => ret[h] # <<>>
            /\ h \div 210000 >= 33 => ret[h] = <<>>
        /\ \A h1, h2 \in DOMAIN ret : h1 <= h2 => ~BigLess(ret[h1], ret[h2])

HalvingRewardDecayWitness ==
    /\ pc = "done"
    /\ arg = <<32 * 210000 + 209999, 33 * 210000>>
    /\ ret[32 * 210000 + 209999] = <<1>>
    /\ ret[33 * 210000] = <<>>

(***************************************************************************)
(* generate_address                                                        *)
(* A str is a sequence of characters.  random.choices draws every one of   *)
(* its k characters from the population; itertools.repeat(None, k) inside  *)
(* it yields nothing for k <= 0.                                           *)
(***************************************************************************)
MaxSuffix == 2

MaxOver == 2

ascii_lowercase ==
    <<"a", "b", "c", "d", "e", "f", "g", "h", "i", "j", "k", "l", "m",
      "n", "o", "p", "q", "r", "s", "t", "u", "v", "w", "x", "y", "z">>

digits == <<"0", "1", "2", "3", "4", "5", "6", "7", "8", "9">>

\* Prefixes of 32 - MaxSuffix to 32 + MaxOver characters.
Prefixes ==
    {[i \in 1 .. n |-> c] : n \in (32 - MaxSuffix) .. (32 + MaxOver), c \in {"B", "q", "_"}}

\* The possible results of random.choices(population, k=k).
choices(population, k) ==
    IF k <= 0 THEN {<<>>}
    ELSE {[i \in 1 .. k |-> population[draw[i] + 1]] :
            draw \in [1 .. k -> 0 .. (Len(population) - 1)]}

generate_address(prefix, suffix) == prefix \o suffix

InitAddress ==
    /\ pc = "call"
    /\ arg \in Prefixes
    /\ ret = Pending
    /\ NoHeap

CallGenerateAddress ==
    /\ pc = "call"
    /\ pc' = "done"
    /\ LET suffix_length == 32 - Len(arg) IN
        \E suffix \in choices(ascii_lowercase \o digits, suffix_length) :
            ret' = generate_address(arg, suffix)
    /\ UNCHANGED <<arg, heap, returned, hist>>

SpecAddress == InitAddress /\ [][CallGenerateAddress]_vars

LowercaseAlphanumeric ==
    {ascii_lowercase[i] : i \in DOMAIN ascii_lowercase} \cup {digits[i] : i \in DOMAIN digits}

\* C8: generate_address always returns a string of length exactly 32 that
\* starts with the prefix and continues with lowercase letters and digits
\* only, whatever the prefix and the random draw.
AddressLength32 ==
    pc = "done" =>
        /\ Len(ret) = 32
        /\ Len(ret) >= Len(arg)
        /\ SubSeq(ret, 1, Len(arg)) = arg
        /\ \A i \in (Len(arg) + 1) .. Len(ret) : ret[i] \in LowercaseAlphanumeric

(***************************************************************************)
(* create_utxo                                                             *)
(* kwargs is the mapping of the extra named fields of the call.  Binding   *)
(* the call to def create_utxo(txid, vout, **kwargs) comes first: a        *)
(* keyword that names a parameter already bound positionally raises        *)
(* TypeError before the body runs.                                         *)
(***************************************************************************)
ExtraNames == {"txid", "vout", "value", "address"}

MaxVout == 1

Kwargs ==
    {[k \in names |-> IF k \in {"txid", "address"} THEN s ELSE n] :
        names \in SUBSET ExtraNames, s \in {"tx1", "tx9"}, n \in {3, 500}}

CreateInputs ==
    {[txid |-> t, vout |-> v, kwargs |-> kw] :
        t \in {"tx1", "tx2"}, v \in 0 .. MaxVout, kw \in Kwargs}

\* dict.update(other)
update(d, other) ==
    [k \in DOMAIN d \cup DOMAIN other |-> IF k \in DOMAIN other THEN other[k] ELSE d[k]]

create_utxo_without_update(txid, vout, kwargs) ==
    IF DOMAIN kwargs \cap {"txid", "vout"} # {} THEN [exc |-> "TypeError", val |-> <<>>]
    ELSE [exc |-> "none",
          val |-> [k \in {"txid", "vout"} |-> IF k = "txid" THEN txid ELSE vout]]

create_utxo(txid, vout, kwargs) ==
    IF DOMAIN kwargs \cap {"txid", "vout"} # {} THEN [exc |-> "TypeError", val |-> <<>>]
    ELSE LET utxo == [k \in {"txid", "vout"} |-> IF k = "txid" THEN txid ELSE vout] IN
        [exc |-> "none", val |-> update(utxo, kwargs)]

InitCreate ==
    /\ pc = "call"
    /\ arg \in CreateInputs
    /\ ret = Pending
    /\ NoHeap

CallCreateUtxo ==
    /\ pc = "call"
    /\ pc' = "done"
    /\ ret' = create_utxo(arg.txid, arg.vout, arg.kwargs)
    /\ UNCHANGED <<arg, heap, returned, hist>>

SpecCreate == InitCreate /\ [][CallCreateUtxo]_vars

\* The mapping the call is said to return: txid and vout from the
\* positional arguments, every extra field with its supplied value.
MergedFields ==
    /\ ret.exc = "none"
    /\ DOMAIN ret.val = {"txid", "vout"} \cup DOMAIN arg.kwargs
    /\ \A k \in DOMAIN arg.kwargs : ret.val[k] = arg.kwargs[k]
    /\ "txid" \notin DOMAIN arg.kwargs => ret.val["txid"] = arg.txid
    /\ "vout" \notin DOMAIN arg.kwargs => ret.val["vout"] = arg.vout

\* C9 as stated: create_utxo returns the mapping over {txid, vout} and the
\* extra names, and an extra field named txid or vout overrides the default
\* instead of causing a fault.
CreateUtxoOverrides == pc = "done" => MergedFields

\* C9 (amended): create_utxo returns the mapping over {txid, vout} and the
\* extra names when no extra field is named txid or vout; an extra field
\* named txid or vout makes the call raise TypeError, nothing is returned.
CreateUtxoMerges ==
    pc = "done" =>
        IF DOMAIN arg.kwargs \cap {"txid", "vout"} = {} THEN MergedFields
        ELSE ret.exc = "TypeError"

CreateUtxoMergesWitness ==
    /\ pc = "done"
    /\ arg.txid = "tx1"
    /\ arg.vout = 0
    /\ DOMAIN arg.kwargs = {"value"}
    /\ arg.kwargs["value"] = 500
    /\ ret.exc = "none"
    /\ DOMAIN ret.val = {"txid", "vout", "value"}
    /\ ret.val["value"] = 500

====
